---- MODULE Spec2Model ----
(***************************************************************************)
(* Generation orchestration of the tag generator: the retry policy         *)
(* (utils/retry.ts), the two providers (services/geminiProvider.ts), the   *)
(* orchestrator with failover (services/llmService.ts) and the single-item *)
(* and batch controllers (hooks).                                          *)
(*                                                                         *)
(* An error message is a sequence of fragments; message.includes(s) is     *)
(* membership of the fragment s.  One action runs a handler and every      *)
(* promise continuation that follows it, up to the next point where the    *)
(* code waits for the network or for a timer.                              *)
(***************************************************************************)
EXTENDS Integers, Sequences, FiniteSets, TLC

VARIABLES llmConfig, llmCredentials, envApiKey, activeProvider, aborted, calls,
          tagDataCsv, single, batch, runs, tagHelpers

orchVars == <<llmConfig, llmCredentials, envApiKey, activeProvider>>

\* ---------------------------------------------------------------- bounds
\* generate calls of the single-item controller, and of its longer runs
MaxGenerations == 2

MaxChain == 3

\* runs of the batch controller, and items of a batch
MaxRuns == 2

MaxItems == 2

\* items of the batch that is stopped midway
StoppedItems == 5

\* data lines of the vocabulary, and tags of one answer
MaxRows == 2

MaxTags == 2

Max(a, b) == IF a >= b THEN a ELSE b

\* generate call g, or batch run r, uses slot g, or r
Slots == 1..Max(Max(MaxGenerations, MaxChain), MaxRuns)

\* ------------------------------------------------------------ constants
retries == 3

\* ---------------------------------------------------------------- errors
None == "none"

Err(cls, msg) == [cls |-> cls, msg |-> msg]

NoError == Err("none", <<>>)

AbortError == Err("AbortError", <<"Aborted">>)

isAbortError(e) == e.cls = "AbortError"

includes(msg, s) == \E i \in DOMAIN msg : msg[i] = s

\* ------------------------------------------------------------ providers
\* The identities configured in the checked runs: the Gemini provider and one
\* OpenAI-compatible identity that needs a key (grok is built the same way).
Identities == {"gemini", "openai"}

ProviderClass(p) == IF p = "gemini" THEN "GeminiProvider" ELSE "OpenAICompatibleProvider"

NoProvider == [identity |-> None, cls |-> None, key |-> None]

\* what the transport of each provider can answer
Texts == {"valid", "empty", "badjson"}

GeminiOutcomes ==
    [kind : {"text"}, text : Texts, err : {NoError}]
    \cup [kind : {"throw"}, text : {None},
          err : {Err("Error", <<"400", "API key">>), Err("Error", <<"403">>),
                 Err("Error", <<"429">>),
                 Err("Error", <<"400">>), Err("Error", <<"blocked", "safety">>),
                 Err("TypeError", <<"Failed to fetch">>)}]

NoResponse == [status |-> 0, text |-> None, message |-> <<>>]

OpenAIOutcomes ==
    [kind : {"reject"}, err : {Err("TypeError", <<"Failed to fetch">>)}, resp : {NoResponse}]
    \cup [kind : {"response"}, err : {NoError},
          resp : [status : {200}, text : Texts, message : {<<>>}]
                 \cup [status : {400, 401, 403, 429, 500}, text : {None}, message : {<<>>}]
                 \cup [status : {401}, text : {None}, message : {<<"Incorrect", "API key">>}]]

\* ------------------------------------------------- configuration storage
\* llmConfig.hasCred: the stored configuration itself carries the credential
\* its provider needs (apiKey, or baseUrl for a custom endpoint).
\* llmCredentials.stored: the identities whose credential is in the
\* credentials storage.
Configs ==
    [provider : Identities, hasCred : BOOLEAN, enableFailover : BOOLEAN,
     failoverProvider : Identities \cup {None}]

\* SettingsModal handleSave writes the credential of the active provider into
\* both storages.
Saved(config, creds) == config.hasCred = (config.provider \in creds.stored)

Credentials == [stored : SUBSET Identities, backupApiKey : BOOLEAN]

Failure(e) == [ok |-> FALSE, prov |-> NoProvider, err |-> e]

Built(p, key) ==
    [ok |-> TRUE, prov |-> [identity |-> p, cls |-> ProviderClass(p), key |-> key],
     err |-> NoError]

\* createProvider: the override wins over the stored credential; the Gemini
\* constructor falls back to the environment key.
createProvider(providerType, override, creds, env) ==
    LET have == override \/ providerType \in creds.stored
        key  == IF override THEN "override" ELSE "stored"
    IN  CASE providerType = "openai" ->
                IF ~have THEN Failure(Err("Error", <<"OpenAI provider requires an", "API Key">>))
                ELSE Built(providerType, key)
          [] providerType = "custom" ->
                IF ~have THEN Failure(Err("Error", <<"Custom Endpoint provider requires a Base URL">>))
                ELSE Built(providerType, key)
          [] OTHER ->
                IF have THEN Built("gemini", key)
                ELSE IF env THEN Built("gemini", "env")
                ELSE Failure(Err("Error", <<"Gemini", "API key", "is not provided">>))

ensureProviderIsActive(active, config, creds, env) ==
    IF active # NoProvider THEN [ok |-> TRUE, prov |-> active, err |-> NoError]
    ELSE createProvider(config.provider, config.hasCred, creds, env)

\* ------------------------------------------------------------ one request
\* What a step of a request reads from outside at the time it runs: the
\* signalled tokens, the credentials storage and the environment key.
World(ab, creds, env) == [ab |-> ab, creds |-> creds, env |-> env]

Phases == {"primary", "backup"}

Zero == [ph \in Phases |-> 0]

NoRequest == [item |-> 0, feedback |-> FALSE]

NoOutcome == [kind |-> None]

Returned == Err("returned", <<>>)

Nothing == [ph \in Phases |-> NoError]

\* the configuration of a request that has not read one (part_002 129)
NoConfig ==
    [provider |-> None, hasCred |-> FALSE, enableFailover |-> FALSE,
     failoverProvider |-> None]

\* The fields from invoked on record what happened, for the properties; the
\* code does not keep them.  Per phase: invoked, failed, sent and waited count
\* the invocations of the wrapped operation, its failures, the transport calls
\* and the backoff delays; called counts the calls of provider.generateTags;
\* allRate tells that every failure so far was a rate-limit error; retryEnd
\* and provEnd are how withRetry and the provider call ended; sigPhase is the
\* phase in which the token was signalled while the request was waiting.
IdleCall ==
    [pc |-> "idle", phase |-> "primary", prov |-> NoProvider, config |-> NoConfig,
     req |-> NoRequest, tok |-> 0, attempt |-> 0,
     lastError |-> NoError, resp |-> NoResponse, primaryErr |-> NoError,
     failoverErr |-> NoError, outcome |-> NoOutcome,
     invoked |-> Zero, failed |-> Zero, sent |-> Zero, waited |-> Zero,
     called |-> Zero, allRate |-> [ph \in Phases |-> TRUE],
     retryEnd |-> Nothing, provEnd |-> Nothing, sigPhase |-> None,
     backupReq |-> NoRequest, backupTok |-> 0]

isRateLimit(e) == includes(e.msg, "429")

Finish(c, out) == [c EXCEPT !.pc = "done", !.outcome = out]

Raise(c, e) == Finish(c, [kind |-> "error", err |-> e])

Result(c) == [by |-> c.prov, req |-> c.req]

\* retry.ts 18-20
isAuthError(errorMessage) ==
    includes(errorMessage, "API key") \/ includes(errorMessage, "401")
        \/ includes(errorMessage, "403")

isBadRequest(errorMessage) ==
    includes(errorMessage, "400") /\ ~includes(errorMessage, "safety")

RECURSIVE invoke(_, _)

\* a combined error that drops the primary failure's message
CombinedErrorBackupOnly(config, err, failoverErr) ==
    Err("Error", <<"primary service", config.provider, "failed">>
                 \o <<"backup service", config.failoverProvider, "also failed">>
                 \o failoverErr.msg)

\* llmService generateTags 165-168: the error of a double failure
CombinedError(config, err, failoverErr) ==
    Err("Error", <<"primary service", config.provider, "failed">> \o err.msg
                 \o <<"backup service", config.failoverProvider, "also failed">>
                 \o failoverErr.msg)

ConnectionError == Err("Error", <<"cannot connect to the AI service">>)

\* llmService generateTags, the catch of the backup attempt (163-169)
failoverCatch(c0, failoverErr) ==
    LET c == [c0 EXCEPT !.failoverErr = failoverErr]
    IN  IF isAbortError(failoverErr) THEN Raise(c, failoverErr)
        ELSE Raise(c, CombinedError(c.config, c.primaryErr, failoverErr))

\* a failover that skips a backup of the primary's identity
shouldFailoverDistinct(config) ==
    config.enableFailover /\ config.failoverProvider # None
        /\ config.failoverProvider # config.provider

\* llmService generateTags 143: whether the backup is attempted
shouldFailover(config) == config.enableFailover /\ config.failoverProvider # None

failoverOverride(config, creds) == config.failoverProvider = "gemini" /\ creds.backupApiKey

\* a catch that fails a cancelled primary over like any other failure
generateTagsCatchAll(c0, err, w) ==
    LET c == [c0 EXCEPT !.primaryErr = err]
    IN  IF shouldFailover(c.config) THEN
            LET made == createProvider(c.config.failoverProvider,
                                       failoverOverride(c.config, w.creds), w.creds, w.env)
                c1 == [c EXCEPT !.phase = "backup"]
            IN  IF ~made.ok THEN failoverCatch(c1, made.err)
                ELSE invoke([c1 EXCEPT !.prov = made.prov, !.attempt = 0,
                                       !.lastError = NoError,
                                       !.called["backup"] = @ + 1,
                                       !.backupReq = c.req, !.backupTok = c.tok], w)
        ELSE Raise(c, err)

\* llmService generateTags, the catch of the primary attempt (135-176)
generateTagsCatch(c0, err, w) ==
    LET c == [c0 EXCEPT !.primaryErr = err]
    IN  IF isAbortError(err) THEN Raise(c, err)
        ELSE IF shouldFailover(c.config) THEN
            LET made == createProvider(c.config.failoverProvider,
                                       failoverOverride(c.config, w.creds), w.creds, w.env)
                c1 == [c EXCEPT !.phase = "backup"]
            IN  IF ~made.ok THEN failoverCatch(c1, made.err)
                ELSE invoke([c1 EXCEPT !.prov = made.prov, !.attempt = 0,
                                       !.lastError = NoError,
                                       !.called["backup"] = @ + 1,
                                       !.backupReq = c.req, !.backupTok = c.tok], w)
        ELSE IF err.cls = "TypeError" THEN Raise(c, ConnectionError)
        ELSE Raise(c, err)

orchestratorCatch(c, err, w) ==
    IF c.phase = "primary" THEN generateTagsCatch(c, err, w) ELSE failoverCatch(c, err)

orchestratorReturn(c0) ==
    LET c == [c0 EXCEPT !.provEnd[c0.phase] = Returned]
    IN
    IF c.phase = "primary"
    THEN Finish(c, [kind |-> "ok", result |-> Result(c), usedFailover |-> FALSE,
                    providerName |-> c.config.provider])
    ELSE Finish(c, [kind |-> "ok", result |-> Result(c), usedFailover |-> TRUE,
                    providerName |-> c.config.failoverProvider])

\* GeminiProvider.generateTags catch (182-193)
GeminiCatch(error) ==
    IF isAbortError(error) THEN error
    ELSE IF includes(error.msg, "API key") THEN Err("Error", <<"verification failed: key invalid or missing">>)
    ELSE IF includes(error.msg, "429") THEN Err("Error", <<"request rate exceeded: still failing after retries">>)
    ELSE IF includes(error.msg, "blocked") THEN Err("Error", <<"content blocked by the safety filter">>)
    ELSE error

\* OpenAICompatibleProvider.generateTags catch (540-554)
OpenAICatch(error) ==
    IF isAbortError(error) THEN error
    ELSE IF includes(error.msg, "Auth failed") THEN Err("Error", <<"verification failed: key invalid">>)
    ELSE IF includes(error.msg, "Rate limit") THEN Err("Error", <<"request rate exceeded: failed after several retries">>)
    ELSE error

providerCatch(c, error, w) ==
    LET thrown == IF c.prov.cls = "GeminiProvider" THEN GeminiCatch(error)
                  ELSE OpenAICatch(error)
    IN  orchestratorCatch([c EXCEPT !.provEnd[c.phase] = thrown], thrown, w)

\* what follows withRetry's return in both providers (159-180, 518-539)
providerParse(c0, rawText, w) ==
    LET c == [c0 EXCEPT !.retryEnd[c0.phase] = Returned]
    IN
    IF rawText = "empty" THEN
        providerCatch(c, Err("Error", <<"empty response">>), w)
    ELSE IF rawText = "badjson" THEN
        providerCatch(c, Err(IF c.prov.cls = "GeminiProvider" THEN "SyntaxError" ELSE "Error",
                             <<"Failed to parse">>), w)
    ELSE orchestratorReturn(c)

\* retry.ts 13-36 and 39: the catch of one attempt
withRetryThrow(c, error, w) == providerCatch([c EXCEPT !.retryEnd[c.phase] = error], error, w)

\* a catch that never runs out of attempts
withRetryCatchForever(c, error, w) ==
    LET c1 == [c EXCEPT !.lastError = error, !.failed[c.phase] = @ + 1,
                        !.allRate[c.phase] = @ /\ isRateLimit(error)]
    IN  IF isAuthError(error.msg) \/ isBadRequest(error.msg) THEN withRetryThrow(c1, error, w)
        ELSE [c1 EXCEPT !.pc = "backoff", !.waited[c.phase] = @ + 1]

\* a catch that gives up one attempt early
withRetryCatchEarly(c, error, w) ==
    LET c1 == [c EXCEPT !.lastError = error, !.failed[c.phase] = @ + 1,
                        !.allRate[c.phase] = @ /\ isRateLimit(error)]
    IN  IF isAuthError(error.msg) \/ isBadRequest(error.msg) THEN withRetryThrow(c1, error, w)
        ELSE IF c.attempt + 1 = retries THEN withRetryThrow(c1, c1.lastError, w)
        ELSE [c1 EXCEPT !.pc = "backoff", !.waited[c.phase] = @ + 1]

withRetryCatch(c, error, w) ==
    LET c1 == [c EXCEPT !.lastError = error, !.failed[c.phase] = @ + 1,
                        !.allRate[c.phase] = @ /\ isRateLimit(error)]
    IN  IF isAuthError(error.msg) \/ isBadRequest(error.msg) THEN withRetryThrow(c1, error, w)
        ELSE IF c.attempt = retries THEN withRetryThrow(c1, c1.lastError, w)
        ELSE [c1 EXCEPT !.pc = "backoff", !.waited[c.phase] = @ + 1]

\* retry.ts 12: fn() of attempt c.attempt, up to the transport call
\* (geminiProvider 75-77 and 143; 474 with an already signalled token)
invoke(c, w) ==
    LET c1 == [c EXCEPT !.invoked[c.phase] = @ + 1]
    IN  IF c.tok \in w.ab THEN withRetryCatch(c1, AbortError, w)
        ELSE [c1 EXCEPT !.pc = "transport", !.sent[c.phase] = @ + 1]

\* a generateTags that raises the error of ensureProviderIsActive as it is
generateTagsUnbuiltRaises(req, tok, active, config, w) ==
    LET got == ensureProviderIsActive(active, config, w.creds, w.env)
        c   == [IdleCall EXCEPT !.config = config, !.req = req, !.tok = tok]
    IN  IF ~got.ok THEN Raise([c EXCEPT !.primaryErr = got.err], got.err)
        ELSE invoke([c EXCEPT !.prov = got.prov, !.called["primary"] = 1], w)

\* llmService generateTags 129-134, up to the first transport call
generateTags(req, tok, active, config, w) ==
    LET got == ensureProviderIsActive(active, config, w.creds, w.env)
        c   == [IdleCall EXCEPT !.config = config, !.req = req, !.tok = tok]
    IN  IF ~got.ok THEN generateTagsCatch(c, got.err, w)
        ELSE invoke([c EXCEPT !.prov = got.prov, !.called["primary"] = 1], w)

\* the process-wide provider after ensureProviderIsActive (84-88, 105-118)
activeAfter(active, config, w) ==
    LET got == ensureProviderIsActive(active, config, w.creds, w.env)
    IN  IF got.ok THEN got.prov ELSE active

StatusText(status) ==
    CASE status = 400 -> "400" [] status = 401 -> "401" [] status = 403 -> "403"
      [] status = 429 -> "429" [] OTHER -> "500"

\* openAICompatibleProvider performGeneration 495-509
StatusError(status, errorMessage) ==
    IF status = 429 THEN Err("Error", <<"Rate limit", "exceeded", "429">> \o errorMessage)
    ELSE IF status >= 500 THEN Err("Error", <<"Server error", StatusText(status)>> \o errorMessage)
    ELSE IF status = 401 \/ status = 403 THEN Err("Error", <<"Auth failed">> \o errorMessage)
    ELSE Err("Error", <<"API Request failed", StatusText(status)>> \o errorMessage)

\* the transport call of the attempt answers o
\* (geminiProvider 143-153; openAICompatibleProvider 474-495)
transportComplete(c, o, w) ==
    IF c.prov.cls = "GeminiProvider" THEN
        IF o.kind = "throw" THEN withRetryCatch(c, o.err, w)
        ELSE IF c.tok \in w.ab THEN withRetryCatch(c, AbortError, w)
        ELSE providerParse(c, o.text, w)
    ELSE
        IF o.kind = "reject" THEN withRetryCatch(c, o.err, w)
        ELSE [c EXCEPT !.pc = IF o.resp.status = 200 THEN "okbody" ELSE "errbody",
                       !.resp = o.resp]

\* response.json() of the OpenAI-compatible provider resolves (496-513)
bodyComplete(c, w) ==
    IF c.pc = "okbody" THEN providerParse([c EXCEPT !.resp = NoResponse], c.resp.text, w)
    ELSE withRetryCatch([c EXCEPT !.resp = NoResponse],
                        StatusError(c.resp.status, c.resp.message), w)

\* the token of the request is signalled while the request waits: fetch and
\* response.json() reject with the AbortError, and the rejection of the error
\* body is swallowed (496); the Gemini transport does not get the signal.
signalled(c0, w) ==
    LET c == IF c0.pc \in {"transport", "okbody", "errbody", "backoff"}
             THEN [c0 EXCEPT !.sigPhase = c0.phase] ELSE c0
    IN
    IF c.prov.cls # "OpenAICompatibleProvider" THEN c
    ELSE IF c.pc = "transport" \/ c.pc = "okbody" THEN
        withRetryCatch([c EXCEPT !.resp = NoResponse], AbortError, w)
    ELSE IF c.pc = "errbody" THEN
        withRetryCatch([c EXCEPT !.resp = NoResponse], StatusError(c.resp.status, <<>>), w)
    ELSE c

\* the backoff timer of withRetry fires (retry.ts 35, then 10-12)
backoffElapsed(c, w) == invoke([c EXCEPT !.attempt = @ + 1], w)

\* ------------------------------------------------------------- explainTag
\* The explanation request goes through the same withRetry and the same
\* transports; the providers' explainTag and the orchestrator's explainTag
\* differ from generateTags in what their catch blocks do.
RECURSIVE explainInvoke(_, _)

ExplainConnectionError == Err("Error", <<"failed to connect to the endpoint for explanation">>)

\* llmService explainTag 214-217: the end of the outer catch
explainTagEnd(c, err) ==
    IF err.cls = "TypeError" THEN Raise(c, ExplainConnectionError) ELSE Raise(c, err)

\* llmService explainTag, the catch of the backup attempt (209-211)
explainFailoverCatch(c0, failoverErr) ==
    LET c == [c0 EXCEPT !.failoverErr = failoverErr]
    IN  explainTagEnd(c, c.primaryErr)

\* llmService explainTag, the catch of the primary attempt (190-219)
explainTagCatch(c0, err, w) ==
    LET c == [c0 EXCEPT !.primaryErr = err]
    IN  IF isAbortError(err) THEN Raise(c, err)
        ELSE IF shouldFailover(c.config) THEN
            LET made == createProvider(c.config.failoverProvider,
                                       failoverOverride(c.config, w.creds), w.creds, w.env)
                c1 == [c EXCEPT !.phase = "backup"]
            IN  IF ~made.ok THEN explainFailoverCatch(c1, made.err)
                ELSE explainInvoke([c1 EXCEPT !.prov = made.prov, !.attempt = 0,
                                              !.lastError = NoError,
                                              !.called["backup"] = @ + 1,
                                              !.backupReq = c.req, !.backupTok = c.tok], w)
        ELSE explainTagEnd(c, err)

explainOrchestratorCatch(c, err, w) ==
    IF c.phase = "primary" THEN explainTagCatch(c, err, w) ELSE explainFailoverCatch(c, err)

\* llmService explainTag 189 and 208: the provider's answer is returned
explainReturn(c0) ==
    LET c == [c0 EXCEPT !.retryEnd[c0.phase] = Returned, !.provEnd[c0.phase] = Returned]
    IN  Finish(c, [kind |-> "ok", result |-> Result(c)])

\* the catch of explainTag in both providers (geminiProvider 234-240, 611-617)
explainProviderCatch(c, error, w) ==
    LET thrown == IF isAbortError(error) THEN error
                  ELSE IF c.prov.cls = "GeminiProvider"
                       THEN Err("Error", <<"the AI cannot explain this tag">>)
                       ELSE Err("Error", <<"cannot get the AI explanation">>)
    IN  explainOrchestratorCatch([c EXCEPT !.provEnd[c.phase] = thrown], thrown, w)

explainRetryThrow(c, error, w) ==
    explainProviderCatch([c EXCEPT !.retryEnd[c.phase] = error], error, w)

\* retry.ts 13-36 and 39 around performExplanation
explainRetryCatch(c, error, w) ==
    LET c1 == [c EXCEPT !.lastError = error, !.failed[c.phase] = @ + 1,
                        !.allRate[c.phase] = @ /\ isRateLimit(error)]
    IN  IF isAuthError(error.msg) \/ isBadRequest(error.msg) THEN explainRetryThrow(c1, error, w)
        ELSE IF c.attempt = retries THEN explainRetryThrow(c1, c1.lastError, w)
        ELSE [c1 EXCEPT !.pc = "backoff", !.waited[c.phase] = @ + 1]

\* retry.ts 12: performExplanation of attempt c.attempt, up to the transport
\* call (geminiProvider 204-206; 580 with an already signalled token)
explainInvoke(c, w) ==
    LET c1 == [c EXCEPT !.invoked[c.phase] = @ + 1]
    IN  IF c.tok \in w.ab THEN explainRetryCatch(c1, AbortError, w)
        ELSE [c1 EXCEPT !.pc = "transport", !.sent[c.phase] = @ + 1]

\* llmService explainTag 186-189, up to the first transport call
explainTag(tok, active, config, w) ==
    LET got == ensureProviderIsActive(active, config, w.creds, w.env)
        c   == [IdleCall EXCEPT !.config = config, !.req = [item |-> 1, feedback |-> FALSE],
                                !.tok = tok]
    IN  IF ~got.ok THEN explainTagCatch(c, got.err, w)
        ELSE explainInvoke([c EXCEPT !.prov = got.prov, !.called["primary"] = 1], w)

\* the transport call of the attempt answers o
\* (geminiProvider 222-228; 580-602)
explainTransportComplete(c, o, w) ==
    IF c.prov.cls = "GeminiProvider" THEN
        IF o.kind = "throw" THEN explainRetryCatch(c, o.err, w)
        ELSE explainReturn(c)
    ELSE
        IF o.kind = "reject" THEN explainRetryCatch(c, o.err, w)
        ELSE IF o.resp.status # 200
             THEN explainRetryCatch(c, Err("Error", <<"API error", StatusText(o.resp.status)>>), w)
        ELSE [c EXCEPT !.pc = "okbody", !.resp = o.resp]

\* response.json() of the OpenAI-compatible provider resolves (604-605)
explainBodyComplete(c, w) == explainReturn([c EXCEPT !.resp = NoResponse])

\* the token is signalled while the explanation request waits: fetch and
\* response.json() reject with the AbortError; the Gemini transport does not
\* get the signal
explainSignalled(c0, w) ==
    LET c == IF c0.pc \in {"transport", "okbody", "backoff"}
             THEN [c0 EXCEPT !.sigPhase = c0.phase] ELSE c0
    IN  IF c.prov.cls = "OpenAICompatibleProvider" /\ c.pc \in {"transport", "okbody"}
        THEN explainRetryCatch([c EXCEPT !.resp = NoResponse], AbortError, w)
        ELSE c

explainBackoffElapsed(c, w) == explainInvoke([c EXCEPT !.attempt = @ + 1], w)

\* ============================================ the single-item controller
\* useSingleGenerator: its state and refs in one record.  fate, superseded
\* and onSuccess record what each generate call did, for the properties:
\* generate call g uses slot g and token g.
LoadingSteps == 5

NoTimers == [owner |-> 0, fired |-> 0]

NoResult == [by |-> NoProvider, req |-> NoRequest]

NoFailover == [used |-> FALSE, provider |-> None]

InitSingle ==
    [generatedResult |-> NoResult, loadingStep |-> None, error |-> <<>>,
     failoverInfo |-> NoFailover, loadingTimers |-> NoTimers, abortControllerRef |-> 0,
     started |-> 0, fate |-> [g \in Slots |-> None], superseded |-> {},
     onSuccess |-> 0]

InFlight(cs, g) == cs[g].pc \notin {"idle", "done"}

\* a catch that stores the message of every failure, the cancellation too
settleStoresAbort(st, g, c) ==
    LET body ==
            IF c.outcome.kind = "ok" THEN
                [st EXCEPT !.generatedResult = c.outcome.result,
                           !.failoverInfo =
                               IF c.outcome.usedFailover
                               THEN [used |-> TRUE, provider |-> c.outcome.providerName]
                               ELSE NoFailover,
                           !.onSuccess = @ + 1,
                           !.fate[g] = "result"]
            ELSE IF isAbortError(c.outcome.err)
            THEN [st EXCEPT !.error = c.outcome.err.msg, !.fate[g] = "cancelled"]
            ELSE [st EXCEPT !.error = c.outcome.err.msg, !.fate[g] = "error"]
    IN  [body EXCEPT !.loadingTimers = NoTimers, !.loadingStep = None,
                     !.abortControllerRef = 0]

\* useSingleGenerator generate 105-133: what follows the await of generateTags
settle(st, g, c) ==
    LET body ==
            IF c.outcome.kind = "ok" THEN
                [st EXCEPT !.generatedResult = c.outcome.result,
                           !.failoverInfo =
                               IF c.outcome.usedFailover
                               THEN [used |-> TRUE, provider |-> c.outcome.providerName]
                               ELSE NoFailover,
                           !.onSuccess = @ + 1,
                           !.fate[g] = "result"]
            ELSE IF isAbortError(c.outcome.err) THEN [st EXCEPT !.fate[g] = "cancelled"]
            ELSE [st EXCEPT !.error = c.outcome.err.msg, !.fate[g] = "error"]
    IN  [body EXCEPT !.loadingTimers = NoTimers, !.loadingStep = None,
                     !.abortControllerRef = 0]

settleIfDone(st, g, c) == IF c.pc = "done" THEN settle(st, g, c) ELSE st

\* a request that is over keeps its outcome only
retire(c) ==
    IF c.pc = "done" THEN [IdleCall EXCEPT !.pc = "done", !.outcome = c.outcome,
                                           !.req = c.req, !.tok = c.tok]
    ELSE c

\* abortControllerRef.current.abort(): the request of token t, if it waits,
\* sees the signal; its generate call goes on when the request is over.
abortCalls(cs, t, w) == IF t = 0 THEN cs ELSE [cs EXCEPT ![t] = retire(signalled(@, w))]

abortSettle(st, cs, t, w) ==
    IF t = 0 \/ ~InFlight(cs, t) THEN st ELSE settleIfDone(st, t, signalled(cs[t], w))

\* ================================================== the batch controller
\* useBatchGenerator: its state and ref in one record; item i of batchItems
\* has id i.  One record per call of generateBatch holds its local variables:
\* the batchItems and activeBatchItemId of its closure, the loop position and
\* the two counts.  sent and onItemSuccess record, for the properties, the
\* items given to the orchestrator and the success callbacks.
Item(status) == [status |-> status, result |-> NoResult, error |-> <<>>]

NoSummary == [completed |-> -1, failed |-> -1]

InitBatch ==
    [batchItems |-> <<>>, activeBatchItemId |-> 0, batchSummary |-> NoSummary,
     isProcessing |-> FALSE, abortControllerRef |-> 0, started |-> 0,
     onItemSuccess |-> [i \in 1..Max(MaxItems, StoppedItems) |-> 0]]

\* stoppedAt is the item the run was waiting for when its token was signalled
IdleRun ==
    [pc |-> "idle", items |-> <<>>, activeBatchItemId |-> 0, i |-> 0,
     completedCount |-> 0, failedCount |-> 0, sent |-> {}, stoppedAt |-> 0,
     reported |-> FALSE]

\* the controller, its runs, the requests and the active provider as one
\* value, which the steps of a run transform
Bundle(b, rs, cs, active) == [batch |-> b, runs |-> rs, calls |-> cs, active |-> active]

\* setBatchItems(prev => prev.map(i => i.id === item.id ? ... : i))
setStatus(B, i, status) ==
    IF i \in DOMAIN B.batch.batchItems
    THEN [B EXCEPT !.batch.batchItems[i].status = status]
    ELSE B

NullSignal == Err("TypeError", <<"Cannot read properties of null">>)

\* an end of the loop that publishes the summary whatever the counts
endRunAlways(B, r) ==
    LET run == B.runs[r]
        b1  == [B.batch EXCEPT !.isProcessing = FALSE, !.abortControllerRef = 0]
        b2  == [b1 EXCEPT
                  !.activeBatchItemId =
                      IF run.activeBatchItemId = 0 /\ Len(run.items) > 0 THEN 1 ELSE @,
                  !.batchSummary = [completed |-> run.completedCount,
                                    failed |-> run.failedCount]]
    IN  [B EXCEPT !.batch = b2, !.runs[r].pc = "ended", !.runs[r].reported = TRUE]

\* generateBatch 183-193: what follows the loop
endRun(B, r) ==
    LET run     == B.runs[r]
        reports == run.completedCount > 0 \/ run.failedCount > 0
        b1      == [B.batch EXCEPT !.isProcessing = FALSE, !.abortControllerRef = 0]
        b2      == [b1 EXCEPT
                      !.activeBatchItemId =
                          IF run.activeBatchItemId = 0 /\ Len(run.items) > 0 THEN 1 ELSE @,
                      !.batchSummary = [completed |-> run.completedCount,
                                        failed |-> run.failedCount]]
    IN  [B EXCEPT !.batch = IF reports THEN b2 ELSE b1,
                  !.runs[r].pc = "ended",
                  !.runs[r].reported = reports]

RECURSIVE runLoop(_, _, _)

\* generateBatch 172-180: the item's request failed with err
itemCatch(B, r, err, w) ==
    LET i == B.runs[r].i
    IN  IF isAbortError(err)
        THEN endRun(setStatus(B, i, "pending"), r)
        ELSE LET B1 == setStatus(B, i, "error")
                 B2 == IF i \in DOMAIN B1.batch.batchItems
                       THEN [B1 EXCEPT !.batch.batchItems[i].error = err.msg]
                       ELSE B1
             IN  runLoop([B2 EXCEPT !.runs[r].failedCount = @ + 1, !.runs[r].i = i + 1], r, w)

\* generateBatch 164-180: what follows the await of generateTags
itemDone(B, r, w) ==
    LET i == B.runs[r].i
        c == B.calls[r]
    IN  IF c.outcome.kind = "ok"
        THEN LET B1 == setStatus(B, i, "completed")
                 B2 == IF i \in DOMAIN B1.batch.batchItems
                       THEN [B1 EXCEPT !.batch.batchItems[i].result = c.outcome.result]
                       ELSE B1
             IN  runLoop([B2 EXCEPT !.runs[r].completedCount = @ + 1,
                                    !.runs[r].i = i + 1,
                                    !.batch.onItemSuccess[i] = @ + 1], r, w)
        ELSE itemCatch(B, r, c.outcome.err, w)

\* generateBatch 141-162: the loop from item B.runs[r].i up to its next await
runLoop(B, r, w) ==
    LET run == B.runs[r]
        i   == run.i
        ref == B.batch.abortControllerRef
    IN  IF i > Len(run.items) THEN endRun(B, r)
        ELSE IF ref # 0 /\ ref \in w.ab THEN endRun(B, r)
        ELSE IF run.items[i] = "completed"
        THEN runLoop([B EXCEPT !.runs[r].completedCount = @ + 1, !.runs[r].i = i + 1], r, w)
        ELSE LET B1 == [setStatus(B, i, "processing") EXCEPT !.batch.activeBatchItemId = i]
             IN  IF ref = 0 THEN itemCatch(B1, r, NullSignal, w)
                 ELSE LET c  == generateTags([item |-> i, feedback |-> FALSE], ref,
                                             B1.active, llmConfig, w)
                          B2 == [B1 EXCEPT !.calls[r] = c,
                                           !.active = activeAfter(B1.active, llmConfig, w),
                                           !.runs[r].sent = @ \cup {i},
                                           !.runs[r].pc = "awaiting"]
                      IN  IF c.pc = "done" THEN itemDone(B2, r, w) ELSE B2

\* a request of run r goes on to c
runStep(B, r, c, w) ==
    LET B1 == [B EXCEPT !.calls[r] = c]
    IN  IF c.pc = "done" THEN itemDone(B1, r, w) ELSE B1

RECURSIVE abortRuns(_, _, _, _)

\* abortControllerRef.current.abort(): the waiting requests that were given
\* token t see the signal, in the order given
abortRuns(B, t, w, order) ==
    IF order = <<>> THEN B
    ELSE LET r  == Head(order)
             B1 == IF B.runs[r].pc = "awaiting" /\ B.calls[r].tok = t
                   THEN runStep([B EXCEPT !.runs[r].stoppedAt = B.runs[r].i], r,
                                signalled(B.calls[r], w), w)
                   ELSE B
         IN  abortRuns(B1, t, w, Tail(order))

\* ===================================================== tagHelpers (lookup)
\* A string is a sequence of characters: "A" and "B" are the upper-case forms
\* of "a" and "b", " " is white space.  The vocabulary tagDataCsv is the
\* sequence of its lines, the header first, and a line is the sequence of
\* its comma-separated parts.

\* String.prototype.toLowerCase
toLowerCase(s) ==
    [i \in DOMAIN s |-> IF s[i] = "A" THEN "a" ELSE IF s[i] = "B" THEN "b" ELSE s[i]]

RECURSIVE trimStart(_)
trimStart(s) == IF s # <<>> /\ Head(s) = " " THEN trimStart(Tail(s)) ELSE s

RECURSIVE trimEnd(_)
trimEnd(s) == IF s # <<>> /\ s[Len(s)] = " " THEN trimEnd(SubSeq(s, 1, Len(s) - 1)) ELSE s

\* String.prototype.trim
trim(s) == trimEnd(trimStart(s))

Min3(a, b, c) == IF a <= b /\ a <= c THEN a ELSE IF b <= c THEN b ELSE c

\* the row d[i] of the distance table from the row d[i-1]; d[i][j] is kept at
\* position j + 1
RECURSIVE levenshteinRow(_, _, _, _, _)
levenshteinRow(prev, s, t, i, row) ==
    IF Len(row) = Len(t) + 1 THEN row
    ELSE LET j    == Len(row)
             cost == IF s[i] = t[j] THEN 0 ELSE 1
         IN  levenshteinRow(prev, s, t, i,
                            Append(row, Min3(prev[j + 1] + 1, row[j] + 1, prev[j] + cost)))

RECURSIVE levenshteinRows(_, _, _, _)
levenshteinRows(prev, s, t, i) ==
    IF i > Len(s) THEN prev
    ELSE levenshteinRows(levenshteinRow(prev, s, t, i, <<i>>), s, t, i + 1)

levenshteinDistance(s, t) ==
    IF s = t THEN 0
    ELSE IF Len(s) = 0 THEN Len(t)
    ELSE IF Len(t) = 0 THEN Len(s)
    ELSE levenshteinRows([j \in 1..(Len(t) + 1) |-> j - 1], s, t, 1)[Len(t) + 1]

TargetLangs == {"en", "sc", "tc"}

\* the lookup has no answer
Null == <<"null">>

\* lookupMap and validKeys before the first line
EmptyLookup == [lookupMap |-> <<>>, validKeys |-> <<>>]

\* lookupMap.set(key, value); validKeys.push(key)
register(T, key, value) ==
    [lookupMap |-> [k \in DOMAIN T.lookupMap \cup {key} |->
                       IF k = key THEN value ELSE T.lookupMap[k]],
     validKeys |-> Append(T.validKeys, key)]

\* a line of two parts: 標籤,標籤定義
registerSimple(T, parts) ==
    LET tag        == trim(parts[1])
        definition == trim(parts[2])
        T1         == register(T, toLowerCase(tag), tag)
    IN  IF tag = <<>> THEN T
        ELSE IF definition = <<>> THEN T1
        ELSE register(T1, toLowerCase(definition), tag)

\* a line of three parts or more: EN, SC, TC
registerRow(T, parts, targetLang) ==
    LET en == trim(parts[1])
        sc == trim(parts[2])
        tc == trim(parts[3])
        targetValue == IF targetLang = "en" THEN en
                       ELSE IF targetLang = "sc" THEN sc
                       ELSE tc
        T1 == IF en # <<>> THEN register(T, toLowerCase(en), targetValue) ELSE T
        T2 == IF sc # <<>> THEN register(T1, sc, targetValue) ELSE T1
        T3 == IF tc # <<>> THEN register(T2, tc, targetValue) ELSE T2
    IN  IF targetValue = <<>> THEN T ELSE T3

registerLine(T, parts, targetLang) ==
    IF Len(parts) < 2 THEN T
    ELSE IF Len(parts) = 2 THEN registerSimple(T, parts)
    ELSE registerRow(T, parts, targetLang)

RECURSIVE registerLines(_, _, _)
registerLines(T, lines, targetLang) ==
    IF lines = <<>> THEN T
    ELSE registerLines(registerLine(T, Head(lines), targetLang), Tail(lines), targetLang)

\* the map and the keys that createTagLookup builds; the header is skipped
createTagLookup(csv, targetLang) ==
    registerLines(EmptyLookup, IF csv = <<>> THEN <<>> ELSE Tail(csv), targetLang)

Infinity == 1000

abs(n) == IF n < 0 THEN 0 - n ELSE n

\* a tolerance that does not single out short inputs
maxDistanceLoose(len) == IF len < 8 THEN 2 ELSE 3

\* the tolerance of the fuzzy match for an input of this length
maxDistanceFor(len) == IF len < 4 THEN 0 ELSE IF len < 8 THEN 2 ELSE 3

\* a loop in which the last of the nearest keys wins
RECURSIVE fuzzyMatchLast(_, _, _, _)
fuzzyMatchLast(keys, normalizedInput, maxDistance, best) ==
    IF keys = <<>> THEN best
    ELSE LET key  == Head(keys)
             dist == levenshteinDistance(normalizedInput, key)
             next == IF abs(Len(key) - Len(normalizedInput)) > maxDistance THEN best
                     ELSE IF dist <= maxDistance /\ dist <= best.minDistance
                          THEN [bestMatch |-> key, minDistance |-> dist]
                     ELSE best
         IN  fuzzyMatchLast(Tail(keys), normalizedInput, maxDistance, next)

\* the loop over validKeys: best is [bestMatch, minDistance]
RECURSIVE fuzzyMatch(_, _, _, _)
fuzzyMatch(keys, normalizedInput, maxDistance, best) ==
    IF keys = <<>> THEN best
    ELSE LET key  == Head(keys)
             dist == levenshteinDistance(normalizedInput, key)
             next == IF abs(Len(key) - Len(normalizedInput)) > maxDistance THEN best
                     ELSE IF dist <= maxDistance /\ dist < best.minDistance
                          THEN [bestMatch |-> key, minDistance |-> dist]
                     ELSE best
         IN  fuzzyMatch(Tail(keys), normalizedInput, maxDistance, next)

\* the function createTagLookup returns, applied to tagName
lookup(T, tagName) ==
    LET normalizedInput == trim(toLowerCase(tagName))
        maxDistance     == maxDistanceFor(Len(normalizedInput))
        best == fuzzyMatch(T.validKeys, normalizedInput, maxDistance,
                           [bestMatch |-> Null, minDistance |-> Infinity])
    IN  IF tagName = <<>> THEN Null
        ELSE IF normalizedInput \in DOMAIN T.lookupMap THEN T.lookupMap[normalizedInput]
        ELSE IF best.bestMatch # Null /\ best.bestMatch # <<>> THEN T.lookupMap[best.bestMatch]
        ELSE Null

\* tags.map(...).filter(tag => tag !== null)
RECURSIVE mapTags(_, _)
mapTags(T, tags) ==
    IF tags = <<>> THEN <<>>
    ELSE LET tag   == Head(tags)
             match == lookup(T, tag.name)
         IN  IF match # Null /\ match # <<>>
             THEN <<[tag EXCEPT !.name = match]>> \o mapTags(T, Tail(tags))
             ELSE mapTags(T, Tail(tags))

\* normalized.filter(...) with the set of names seen so far
RECURSIVE dropDuplicates(_, _)
dropDuplicates(normalized, seen) ==
    IF normalized = <<>> THEN <<>>
    ELSE LET tag == Head(normalized)
         IN  IF tag.name \in seen
             THEN dropDuplicates(Tail(normalized), seen)
             ELSE <<tag>> \o dropDuplicates(Tail(normalized), seen \cup {tag.name})

\* normalizeTags without its last filter
normalizeTagsKeepAll(csv, tags, targetLang) ==
    mapTags(createTagLookup(csv, targetLang), tags)

normalizeTags(csv, tags, targetLang) ==
    dropDuplicates(mapTags(createTagLookup(csv, targetLang), tags), {})

\* the module before any call
InitTagHelpers ==
    [tagDataCsv |-> <<>>, targetLang |-> "sc", op |-> "none",
     tagName |-> Null, match |-> Null, tags |-> <<>>, normalized |-> <<>>]

\* =================================================== the orchestrator alone
\* One client request on slot 1 with token 1; the token may be signalled at
\* any moment, before the request or while it waits.
vars == <<llmConfig, llmCredentials, envApiKey, activeProvider, aborted, calls,
          tagDataCsv, single, batch, runs, tagHelpers>>

Requests == [item : {1}, feedback : BOOLEAN]

Now == World(aborted, llmCredentials, envApiKey)

InitOrch ==
    /\ llmConfig \in Configs
    /\ llmCredentials \in Credentials
    /\ envApiKey \in BOOLEAN
    /\ Saved(llmConfig, llmCredentials)
    /\ activeProvider = NoProvider
    /\ aborted = {}
    /\ calls = [s \in Slots |-> IdleCall]
    /\ tagDataCsv = TRUE
    /\ single = InitSingle
    /\ batch = InitBatch
    /\ runs = [r \in Slots |-> IdleRun]
    /\ tagHelpers = InitTagHelpers

Request ==
    /\ calls[1].pc = "idle"
    /\ \E req \in Requests :
          calls' = [calls EXCEPT ![1] = generateTags(req, 1, activeProvider, llmConfig, Now)]
    /\ activeProvider' = activeAfter(activeProvider, llmConfig, Now)
    /\ UNCHANGED <<llmConfig, llmCredentials, envApiKey, aborted, tagDataCsv, single,
                   batch, runs, tagHelpers>>

Signal ==
    /\ 1 \notin aborted
    /\ calls[1].pc # "done"
    /\ aborted' = aborted \cup {1}
    /\ calls' = [calls EXCEPT ![1] =
                    signalled(@, World(aborted', llmCredentials, envApiKey))]
    /\ UNCHANGED <<orchVars, tagDataCsv, single, batch, runs, tagHelpers>>

TransportAnswers ==
    /\ calls[1].pc = "transport"
    /\ \E o \in IF calls[1].prov.cls = "GeminiProvider" THEN GeminiOutcomes ELSE OpenAIOutcomes :
          calls' = [calls EXCEPT ![1] = transportComplete(@, o, Now)]
    /\ UNCHANGED <<orchVars, aborted, tagDataCsv, single, batch, runs, tagHelpers>>

BodyArrives ==
    /\ calls[1].pc \in {"okbody", "errbody"}
    /\ calls' = [calls EXCEPT ![1] = bodyComplete(@, Now)]
    /\ UNCHANGED <<orchVars, aborted, tagDataCsv, single, batch, runs, tagHelpers>>

BackoffElapses ==
    /\ calls[1].pc = "backoff"
    /\ calls' = [calls EXCEPT ![1] = backoffElapsed(@, Now)]
    /\ UNCHANGED <<orchVars, aborted, tagDataCsv, single, batch, runs, tagHelpers>>

NextOrch == Request \/ Signal \/ TransportAnswers \/ BodyArrives \/ BackoffElapses

SpecOrch == InitOrch /\ [][NextOrch]_vars

\* Every transport call answers, every body arrives and every backoff timer
\* fires: the network and the timers of the host, which the request waits on.
\* Each of these steps changes the position or the counts of the request.
orchProgress == <<calls[1].pc, calls[1].sent, calls[1].failed, calls[1].waited>>

SpecOrchFair ==
    /\ InitOrch /\ [][NextOrch]_vars
    /\ WF_orchProgress(TransportAnswers)
    /\ WF_orchProgress(BodyArrives)
    /\ WF_orchProgress(BackoffElapses)

\* ============================================== the orchestrator, explainTag
\* One explanation request on slot 1 with token 1.
Explain ==
    /\ calls[1].pc = "idle"
    /\ calls' = [calls EXCEPT ![1] = explainTag(1, activeProvider, llmConfig, Now)]
    /\ activeProvider' = activeAfter(activeProvider, llmConfig, Now)
    /\ UNCHANGED <<llmConfig, llmCredentials, envApiKey, aborted, tagDataCsv, single,
                   batch, runs, tagHelpers>>

ExplainSignal ==
    /\ 1 \notin aborted
    /\ calls[1].pc # "done"
    /\ aborted' = aborted \cup {1}
    /\ calls' = [calls EXCEPT ![1] =
                    explainSignalled(@, World(aborted', llmCredentials, envApiKey))]
    /\ UNCHANGED <<orchVars, tagDataCsv, single, batch, runs, tagHelpers>>

ExplainTransportAnswers ==
    /\ calls[1].pc = "transport"
    /\ \E o \in IF calls[1].prov.cls = "GeminiProvider" THEN GeminiOutcomes ELSE OpenAIOutcomes :
          calls' = [calls EXCEPT ![1] = explainTransportComplete(@, o, Now)]
    /\ UNCHANGED <<orchVars, aborted, tagDataCsv, single, batch, runs, tagHelpers>>

ExplainBodyArrives ==
    /\ calls[1].pc = "okbody"
    /\ calls' = [calls EXCEPT ![1] = explainBodyComplete(@, Now)]
    /\ UNCHANGED <<orchVars, aborted, tagDataCsv, single, batch, runs, tagHelpers>>

ExplainBackoffElapses ==
    /\ calls[1].pc = "backoff"
    /\ calls' = [calls EXCEPT ![1] = explainBackoffElapsed(@, Now)]
    /\ UNCHANGED <<orchVars, aborted, tagDataCsv, single, batch, runs, tagHelpers>>

NextExplain ==
    Explain \/ ExplainSignal \/ ExplainTransportAnswers \/ ExplainBodyArrives
        \/ ExplainBackoffElapses

SpecExplain == InitOrch /\ [][NextExplain]_vars

\* ============================================ the single-item controller
\* the stored configurations the controllers are run under: Gemini alone, and
\* an OpenAI-compatible primary with Gemini as backup
ControllerConfigs ==
    {[provider |-> "gemini", hasCred |-> TRUE, enableFailover |-> FALSE, failoverProvider |-> None],
     [provider |-> "openai", hasCred |-> TRUE, enableFailover |-> TRUE, failoverProvider |-> "gemini"]}

\* the answers of the transport the controllers are run against: a valid
\* answer or a terminal failure (retries then come from cancellation only)
ControllerOutcomes(c) ==
    IF c.prov.cls = "GeminiProvider"
    THEN {o \in GeminiOutcomes :
            \/ o.kind = "text" /\ o.text = "valid"
            \/ o.err = Err("Error", <<"400", "API key">>)}
    ELSE {o \in OpenAIOutcomes :
            /\ o.kind = "response"
            /\ \/ o.resp.status = 200 /\ o.resp.text = "valid"
               \/ o.resp.status = 400}

InitController ==
    /\ llmConfig \in ControllerConfigs
    /\ llmCredentials = [stored |-> Identities, backupApiKey |-> FALSE]
    /\ envApiKey = FALSE
    /\ activeProvider = NoProvider
    /\ aborted = {}
    /\ calls = [s \in Slots |-> IdleCall]

InitSingleSpec ==
    /\ InitController
    /\ tagDataCsv = FALSE
    /\ single = InitSingle
    /\ batch = InitBatch
    /\ runs = [r \in Slots |-> IdleRun]
    /\ tagHelpers = InitTagHelpers

LoadTagData ==
    /\ ~tagDataCsv
    /\ tagDataCsv' = TRUE
    /\ UNCHANGED <<orchVars, aborted, calls, single, batch, runs, tagHelpers>>

\* generate before the tag data is loaded (57-60)
GenerateUnloaded ==
    /\ ~tagDataCsv
    /\ single.error # <<"tag library not loaded">>
    /\ single' = [single EXCEPT !.error = <<"tag library not loaded">>]
    /\ UNCHANGED <<orchVars, aborted, calls, tagDataCsv, batch, runs, tagHelpers>>

\* a generate that never clears the stored result
GenerateKeepsResult(max) ==
    /\ tagDataCsv
    /\ single.started < max
    /\ \E isRegeneration \in BOOLEAN :
        LET g   == single.started + 1
            old == single.abortControllerRef
            ab  == IF old # 0 THEN aborted \cup {old} ELSE aborted
            w   == World(ab, llmCredentials, envApiKey)
            st1 == [single EXCEPT
                      !.started = g,
                      !.abortControllerRef = g,
                      !.loadingTimers = [owner |-> g, fired |-> 0],
                      !.error = <<>>,
                      !.loadingStep = IF isRegeneration THEN "rethinking" ELSE "preparing",
                      !.generatedResult = @,
                      !.failoverInfo = IF isRegeneration THEN @ ELSE NoFailover,
                      !.fate[g] = "running",
                      !.superseded = @ \cup {h \in Slots : InFlight(calls, h)}]
            new == generateTags([item |-> 1, feedback |-> isRegeneration], g,
                                activeProvider, llmConfig, w)
            cs1 == [abortCalls(calls, old, w) EXCEPT ![g] = retire(new)]
        IN  /\ aborted' = ab
            /\ calls' = cs1
            /\ activeProvider' = activeAfter(activeProvider, llmConfig, w)
            /\ single' = settleIfDone(abortSettle(st1, calls, old, w), g, new)
    /\ UNCHANGED <<llmConfig, llmCredentials, envApiKey, tagDataCsv, batch, runs, tagHelpers>>

\* useSingleGenerator generate 62-103, and what the signalled request and a
\* request that ends without waiting bring about
Generate(max) ==
    /\ tagDataCsv
    /\ single.started < max
    /\ \E isRegeneration \in BOOLEAN :
        LET g   == single.started + 1
            old == single.abortControllerRef
            ab  == IF old # 0 THEN aborted \cup {old} ELSE aborted
            w   == World(ab, llmCredentials, envApiKey)
            st1 == [single EXCEPT
                      !.started = g,
                      !.abortControllerRef = g,
                      !.loadingTimers = [owner |-> g, fired |-> 0],
                      !.error = <<>>,
                      !.loadingStep = IF isRegeneration THEN "rethinking" ELSE "preparing",
                      !.generatedResult = IF isRegeneration THEN @ ELSE NoResult,
                      !.failoverInfo = IF isRegeneration THEN @ ELSE NoFailover,
                      !.fate[g] = "running",
                      !.superseded = @ \cup {h \in Slots : InFlight(calls, h)}]
            new == generateTags([item |-> 1, feedback |-> isRegeneration], g,
                                activeProvider, llmConfig, w)
            cs1 == [abortCalls(calls, old, w) EXCEPT ![g] = retire(new)]
        IN  /\ aborted' = ab
            /\ calls' = cs1
            /\ activeProvider' = activeAfter(activeProvider, llmConfig, w)
            /\ single' = settleIfDone(abortSettle(st1, calls, old, w), g, new)
    /\ UNCHANGED <<llmConfig, llmCredentials, envApiKey, tagDataCsv, batch, runs, tagHelpers>>

\* useSingleGenerator stopGeneration 39-49
StopGeneration ==
    /\ single.abortControllerRef # 0
    /\ LET old == single.abortControllerRef
           w   == World(aborted \cup {old}, llmCredentials, envApiKey)
           st1 == [single EXCEPT !.abortControllerRef = 0, !.loadingTimers = NoTimers,
                                 !.loadingStep = None]
       IN  /\ aborted' = aborted \cup {old}
           /\ calls' = abortCalls(calls, old, w)
           /\ single' = abortSettle(st1, calls, old, w)
    /\ UNCHANGED <<orchVars, tagDataCsv, batch, runs, tagHelpers>>

StepLabel(k, isRegeneration) ==
    CASE k = 1 -> "connecting" [] k = 2 -> "reading the cover" [] k = 3 -> "analysing"
      [] k = 4 -> (IF isRegeneration THEN "fine-tuning" ELSE "generating")
      [] OTHER -> "almost done"

\* one of the progress callbacks scheduled by generate fires (86-92)
ProgressTimer ==
    /\ single.loadingTimers.owner # 0
    /\ single.loadingTimers.fired < LoadingSteps
    /\ single' = [single EXCEPT
                    !.loadingTimers.fired = @ + 1,
                    !.loadingStep = StepLabel(single.loadingTimers.fired + 1,
                                              calls[single.loadingTimers.owner].req.feedback)]
    /\ UNCHANGED <<orchVars, aborted, calls, tagDataCsv, batch, runs, tagHelpers>>

\* useSingleGenerator reset 136-141
Reset ==
    /\ single.generatedResult # NoResult \/ single.failoverInfo # NoFailover
          \/ single.error # <<>> \/ single.loadingStep # None
    /\ single' = [single EXCEPT !.generatedResult = NoResult, !.failoverInfo = NoFailover,
                                !.error = <<>>, !.loadingStep = None]
    /\ UNCHANGED <<orchVars, aborted, calls, tagDataCsv, batch, runs, tagHelpers>>

Advance(g, c) ==
    /\ calls' = [calls EXCEPT ![g] = retire(c)]
    /\ single' = settleIfDone(single, g, c)
    /\ UNCHANGED <<orchVars, aborted, tagDataCsv, batch, runs, tagHelpers>>

SingleTransportAnswers ==
    \E g \in Slots :
        /\ calls[g].pc = "transport"
        /\ \E o \in ControllerOutcomes(calls[g]) : Advance(g, transportComplete(calls[g], o, Now))

SingleBodyArrives ==
    \E g \in Slots :
        /\ calls[g].pc \in {"okbody", "errbody"}
        /\ Advance(g, bodyComplete(calls[g], Now))

SingleBackoffElapses ==
    \E g \in Slots :
        /\ calls[g].pc = "backoff"
        /\ Advance(g, backoffElapsed(calls[g], Now))

SingleSteps ==
    \/ LoadTagData \/ GenerateUnloaded \/ StopGeneration \/ ProgressTimer
    \/ Reset \/ SingleTransportAnswers \/ SingleBodyArrives \/ SingleBackoffElapses

NextSingle == Generate(MaxGenerations) \/ SingleSteps

SpecSingle == InitSingleSpec /\ [][NextSingle]_vars

\* the same controller over one more generate call
NextChain == Generate(MaxChain) \/ SingleSteps

SpecChain == InitSingleSpec /\ [][NextChain]_vars

\* ================================================== the batch controller
RunSlots == 1..MaxRuns

\* the orders in which the requests holding one token may see its signal
Orders == {o \in [RunSlots -> RunSlots] : \A a, b \in RunSlots : o[a] = o[b] => a = b}

InitBatchSpec ==
    /\ InitController
    /\ tagDataCsv = FALSE
    /\ single = InitSingle
    /\ batch = InitBatch
    /\ runs = [r \in Slots |-> IdleRun]
    /\ tagHelpers = InitTagHelpers

\* the steps of a run are over: B is the next state
Becomes(B) ==
    /\ batch' = B.batch
    /\ runs' = B.runs
    /\ calls' = [s \in Slots |-> retire(B.calls[s])]
    /\ activeProvider' = B.active
    /\ UNCHANGED <<llmConfig, llmCredentials, envApiKey, tagDataCsv, single, tagHelpers>>

\* useBatchGenerator addItems 103-113, for the first upload
AddItems(n) ==
    /\ batch.batchItems = <<>>
    /\ batch' = [batch EXCEPT !.batchItems = [i \in 1..n |-> Item("pending")],
                              !.activeBatchItemId = 0,
                              !.batchSummary = NoSummary]
    /\ UNCHANGED <<orchVars, aborted, calls, tagDataCsv, single, runs, tagHelpers>>

\* useBatchGenerator generateBatch 124-162, up to its first await
GenerateBatch(max) ==
    /\ ~batch.isProcessing
    /\ tagDataCsv
    /\ batch.started < max
    /\ \E order \in Orders :
        LET r   == batch.started + 1
            old == batch.abortControllerRef
            ab  == IF old # 0 THEN aborted \cup {old} ELSE aborted
            w   == World(ab, llmCredentials, envApiKey)
            b1  == [batch EXCEPT !.started = r, !.abortControllerRef = r,
                                 !.isProcessing = TRUE, !.batchSummary = NoSummary]
            rs1 == [runs EXCEPT ![r] =
                        [IdleRun EXCEPT
                            !.pc = "running",
                            !.items = [i \in DOMAIN batch.batchItems |->
                                          batch.batchItems[i].status],
                            !.activeBatchItemId = batch.activeBatchItemId,
                            !.i = 1]]
            B1  == runLoop(Bundle(b1, rs1, calls, activeProvider), r, w)
        IN  /\ aborted' = ab
            /\ Becomes(IF old = 0 THEN B1 ELSE abortRuns(B1, old, w, order))

\* useBatchGenerator stopGeneration 115-122
BatchStop ==
    /\ batch.abortControllerRef # 0
    /\ \E order \in Orders :
        LET t  == batch.abortControllerRef
            w  == World(aborted \cup {t}, llmCredentials, envApiKey)
            b1 == [batch EXCEPT !.abortControllerRef = 0, !.isProcessing = FALSE]
        IN  /\ aborted' = aborted \cup {t}
            /\ Becomes(abortRuns(Bundle(b1, runs, calls, activeProvider), t, w, order))

\* useBatchGenerator reset 196-199
BatchReset ==
    /\ batch.batchSummary # NoSummary \/ batch.activeBatchItemId # 0
    /\ batch' = [batch EXCEPT !.batchSummary = NoSummary, !.activeBatchItemId = 0]
    /\ UNCHANGED <<orchVars, aborted, calls, tagDataCsv, single, runs, tagHelpers>>

BatchAdvance(r, c) ==
    /\ Becomes(runStep(Bundle(batch, runs, calls, activeProvider), r, c, Now))
    /\ UNCHANGED aborted

BatchTransportAnswers ==
    \E r \in RunSlots :
        /\ calls[r].pc = "transport"
        /\ \E o \in ControllerOutcomes(calls[r]) :
              BatchAdvance(r, transportComplete(calls[r], o, Now))

BatchBodyArrives ==
    \E r \in RunSlots :
        /\ calls[r].pc \in {"okbody", "errbody"}
        /\ BatchAdvance(r, bodyComplete(calls[r], Now))

BatchBackoffElapses ==
    \E r \in RunSlots :
        /\ calls[r].pc = "backoff"
        /\ BatchAdvance(r, backoffElapsed(calls[r], Now))

BatchSteps ==
    \/ LoadTagData \/ BatchStop \/ BatchReset
    \/ BatchTransportAnswers \/ BatchBodyArrives \/ BatchBackoffElapses

NextBatch == AddItems(MaxItems) \/ GenerateBatch(MaxRuns) \/ BatchSteps

SpecBatch == InitBatchSpec /\ [][NextBatch]_vars

\* one run over a longer batch
NextStopped == AddItems(StoppedItems) \/ GenerateBatch(1) \/ BatchSteps

SpecStopped == InitBatchSpec /\ [][NextStopped]_vars

\* ======================================= the settings and the orchestrator
\* The settings dialog saves or resets the configuration at any moment; one
\* generation request is made on slot 1.
DefaultConfig ==
    [provider |-> "gemini", hasCred |-> FALSE, enableFailover |-> FALSE,
     failoverProvider |-> None]

NoCredentials == [stored |-> {}, backupApiKey |-> FALSE]

\* llmService setActiveProvider 84-88: a constructor that throws leaves the
\* process-wide provider as it was
setActiveProvider(active, config, creds, env) ==
    LET made == createProvider(config.provider, config.hasCred, creds, env)
    IN  IF made.ok THEN made.prov ELSE active

\* what the dialog holds when it is saved: a provider with or without its
\* credential, no failover
SettingsConfigs == {config \in Configs : ~config.enableFailover /\ config.failoverProvider = None}

SettingsCredentials == {creds \in Credentials : ~creds.backupApiKey}

\* SettingsModal handleSave 153-183
handleSave ==
    /\ \E config \in SettingsConfigs, creds \in SettingsCredentials :
          /\ Saved(config, creds)
          /\ llmCredentials' = creds
          /\ llmConfig' = config
          /\ activeProvider' = setActiveProvider(activeProvider, config, creds, envApiKey)
    /\ UNCHANGED <<envApiKey, aborted, calls, tagDataCsv, single, batch, runs, tagHelpers>>

\* SettingsModal handleReset 185-196, confirmed
handleReset ==
    /\ llmConfig' = DefaultConfig
    /\ llmCredentials' = NoCredentials
    /\ activeProvider' = NoProvider
    /\ UNCHANGED <<envApiKey, aborted, calls, tagDataCsv, single, batch, runs, tagHelpers>>

SettingsTransportAnswers ==
    /\ calls[1].pc = "transport"
    /\ \E o \in ControllerOutcomes(calls[1]) :
          calls' = [calls EXCEPT ![1] = transportComplete(@, o, Now)]
    /\ UNCHANGED <<orchVars, aborted, tagDataCsv, single, batch, runs, tagHelpers>>

NextSettings ==
    handleSave \/ handleReset \/ Request \/ Signal \/ SettingsTransportAnswers
        \/ BodyArrives \/ BackoffElapses

\* a fresh installation: nothing stored
InitSettings ==
    /\ llmConfig = DefaultConfig
    /\ llmCredentials = NoCredentials
    /\ envApiKey \in BOOLEAN
    /\ activeProvider = NoProvider
    /\ aborted = {}
    /\ calls = [s \in Slots |-> IdleCall]
    /\ tagDataCsv = TRUE
    /\ single = InitSingle
    /\ batch = InitBatch
    /\ runs = [r \in Slots |-> IdleRun]
    /\ tagHelpers = InitTagHelpers

SpecSettings == InitSettings /\ [][NextSettings]_vars

\* ============================================================== tagHelpers
\* The module is loaded with some vocabulary; one call of the lookup or of
\* normalizeTags is made with some language and some input.
Cells == {<<>>, <<"a", "b">>, <<"A", "B">>, <<"a", "b", "a", "b">>}

\* lines of the multi-column format (EN, SC, TC) and of the two-column format
\* (tag, definition)
Lines ==
    {<<en, sc, tc>> : en \in Cells \ {<<"a", "b">>}, sc \in Cells,
                      tc \in Cells \ {<<"a", "b", "a", "b">>}}
    \cup {<<tag, definition>> : tag \in Cells, definition \in {<<>>, <<"a", "b", "a", "b">>}}

Header == <<<<"h">>, <<"h">>, <<"h">>>>

Vocabularies(n) == {<<Header>> \o rows : rows \in UNION {[1..k -> Lines] : k \in 0..n}}

TagNames ==
    {<<>>, <<"a", "b">>, <<"A", "B">>, <<"a", "a">>, <<" ", "A", "b", " ">>,
     <<"a", "b", "a", "b">>, <<"A", "b", "A", "b">>, <<"a", "b", "a", "a">>,
     <<"b", "b", "a", "b", "b">>}

\* the names an answer of the model is made of
AnswerNames == {<<"a", "b">>, <<"A", "B">>, <<"a", "b", "a", "a">>}

Answers(n) == UNION {[1..k -> [name : AnswerNames, score : {1, 2}]] : k \in 0..n}

InitTags ==
    /\ llmConfig = [provider |-> "gemini", hasCred |-> TRUE, enableFailover |-> FALSE,
                    failoverProvider |-> None]
    /\ llmCredentials = [stored |-> Identities, backupApiKey |-> FALSE]
    /\ envApiKey = FALSE
    /\ activeProvider = NoProvider
    /\ aborted = {}
    /\ calls = [s \in Slots |-> IdleCall]
    /\ tagDataCsv = TRUE
    /\ single = InitSingle
    /\ batch = InitBatch
    /\ runs = [r \in Slots |-> IdleRun]
    /\ \E csv \in Vocabularies(MaxRows), lang \in TargetLangs :
          tagHelpers = [InitTagHelpers EXCEPT !.tagDataCsv = csv, !.targetLang = lang]

\* createTagLookup(targetLang)(tagName)
Lookup ==
    /\ tagHelpers.op = "none"
    /\ \E tagName \in TagNames :
          tagHelpers' =
              [tagHelpers EXCEPT
                  !.op = "lookup",
                  !.tagName = tagName,
                  !.match = lookup(createTagLookup(tagHelpers.tagDataCsv,
                                                   tagHelpers.targetLang), tagName)]
    /\ UNCHANGED <<orchVars, aborted, calls, tagDataCsv, single, batch, runs>>

\* normalizeTags(tags, targetLang)
Normalize ==
    /\ tagHelpers.op = "none"
    /\ \E tags \in Answers(MaxTags) :
          tagHelpers' =
              [tagHelpers EXCEPT
                  !.op = "normalize",
                  !.tags = tags,
                  !.normalized = normalizeTags(tagHelpers.tagDataCsv, tags,
                                               tagHelpers.targetLang)]
    /\ UNCHANGED <<orchVars, aborted, calls, tagDataCsv, single, batch, runs>>

NextTags == Lookup \/ Normalize

SpecTags == InitTags /\ [][NextTags]_vars

\* ========================================== tagHelpers, the fuzzy fallback
\* Vocabularies of longer names with a section row (a line that starts with
\* ",=="), and candidates one to three edits away.
FuzzyCells ==
    {<<"a", "b", "a", "a">>, <<"a", "b", "b", "b">>, <<"a", "b", "a", "b", "a", "b">>,
     <<"a", "b", "a", "b", "a", "b", "a", "b">>}

FuzzyLines ==
    {<<en, sc, <<>>>> : en \in FuzzyCells,
                        sc \in {<<>>, <<"a", "b", "a", "a">>,
                                 <<"a", "b", "a", "b", "a", "b", "a", "b">>}}
    \cup {<<<<>>, <<"=", "=", "a", "b", "a", "b">>, <<>>>>}

FuzzyNames ==
    {<<"a", "b", "b">>, <<"a", "b", "a", "b">>, <<"A", "b", "a", "b", "a">>,
     <<"b", "b", "b", "b", "b", "b">>, <<"b", "b", "b", "a", "b", "a", "b">>,
     <<"a", "a", "a", "b", "a", "b", "a", "b">>, <<"b", "b", "b", "b", "b", "b", "a", "b">>,
     <<"b", "b", "b", "b", "b", "b", "b", "b">>,
     <<"a", "b", "a", "b", "a", "b", "b", "b", "b">>, <<"a", "b", "a", "a", " ">>,
     <<"=", "=", "a", "b", "a", "b">>}

InitFuzzy ==
    /\ llmConfig = DefaultConfig
    /\ llmCredentials = NoCredentials
    /\ envApiKey = FALSE
    /\ activeProvider = NoProvider
    /\ aborted = {}
    /\ calls = [s \in Slots |-> IdleCall]
    /\ tagDataCsv = TRUE
    /\ single = InitSingle
    /\ batch = InitBatch
    /\ runs = [r \in Slots |-> IdleRun]
    /\ \E rows \in UNION {[1..k -> FuzzyLines] : k \in 0..MaxRows}, lang \in {"en", "sc"} :
          tagHelpers = [InitTagHelpers EXCEPT !.tagDataCsv = <<Header>> \o rows,
                                              !.targetLang = lang]

\* createTagLookup(targetLang)(tagName)
FuzzyLookup ==
    /\ tagHelpers.op = "none"
    /\ \E tagName \in FuzzyNames :
          tagHelpers' =
              [tagHelpers EXCEPT
                  !.op = "lookup",
                  !.tagName = tagName,
                  !.match = lookup(createTagLookup(tagHelpers.tagDataCsv,
                                                   tagHelpers.targetLang), tagName)]
    /\ UNCHANGED <<orchVars, aborted, calls, tagDataCsv, single, batch, runs>>

SpecFuzzy == InitFuzzy /\ [][FuzzyLookup]_vars

\* ------------------------------------------------------------- properties
Contains(msg, part) ==
    \E i \in 0..(Len(msg) - Len(part)) : SubSeq(msg, i + 1, i + Len(part)) = part

Failed(e) == e # NoError /\ e # Returned

Done(c) == c.pc = "done"

RaisedError(c, e) == Done(c) /\ c.outcome = [kind |-> "error", err |-> e]

\* C1: when the primary provider's generateTags ends with the AbortError, the
\* orchestrator has raised that AbortError and has neither built nor called
\* the backup provider, whatever the failover configuration.
C1_AbortNoFailover ==
    \A s \in Slots :
        isAbortError(calls[s].provEnd["primary"]) =>
            /\ RaisedError(calls[s], calls[s].provEnd["primary"])
            /\ calls[s].phase = "primary"
            /\ calls[s].called["backup"] = 0

C1_Witness ==
    \E s \in Slots :
        /\ isAbortError(calls[s].provEnd["primary"])
        /\ shouldFailover(calls[s].config)
        /\ Done(calls[s])

BackupBuildable(c) ==
    createProvider(c.config.failoverProvider, failoverOverride(c.config, llmCredentials),
                   llmCredentials, envApiKey).ok

\* the primary provider's generateTags raised a non-cancellation error under
\* a configuration that enables failover and names a backup
PrimaryFailedOver(c) ==
    /\ Failed(c.provEnd["primary"]) /\ ~isAbortError(c.provEnd["primary"])
    /\ c.config.enableFailover /\ c.config.failoverProvider # None

PrimarySucceeded(c) == Done(c) /\ c.provEnd["primary"] = Returned

\* C2 as stated: after a non-cancellation failure of the primary with failover
\* enabled and a backup identity configured, the backup's generateTags has
\* been called exactly once with the same request.
C2_BackupAlwaysCalled ==
    \A s \in Slots :
        PrimaryFailedOver(calls[s]) =>
            /\ calls[s].called["backup"] = 1
            /\ calls[s].backupReq = calls[s].req

\* C2 amended: after a non-cancellation failure of the primary with failover
\* enabled and a backup identity configured (the primary's identity included),
\* the backup provider is built; if it can be built its generateTags is called
\* exactly once with the same request and token, and if that call returns the
\* response has usedFailover = TRUE and the backup identity as providerName;
\* if it cannot be built the backup is not called and an error is raised.
\* When the primary returns, the backup is never called and usedFailover is
\* FALSE.
C2_FailoverOnce ==
    \A s \in Slots :
        LET c == calls[s] IN
        /\ PrimaryFailedOver(c) /\ BackupBuildable(c) =>
              /\ c.called["backup"] = 1
              /\ c.backupReq = c.req /\ c.backupTok = c.tok
              /\ c.provEnd["backup"] = Returned =>
                    /\ Done(c) /\ c.outcome.kind = "ok"
                    /\ c.outcome.usedFailover = TRUE
                    /\ c.outcome.providerName = c.config.failoverProvider
        /\ PrimaryFailedOver(c) /\ ~BackupBuildable(c) =>
              /\ c.called["backup"] = 0
              /\ Done(c) /\ c.outcome.kind = "error"
        /\ PrimarySucceeded(c) =>
              /\ c.called["backup"] = 0
              /\ c.outcome.kind = "ok" /\ c.outcome.usedFailover = FALSE

C2_Witness ==
    \E s \in Slots :
        /\ PrimaryFailedOver(calls[s])
        /\ calls[s].config.failoverProvider = calls[s].config.provider
        /\ calls[s].provEnd["backup"] = Returned
        /\ calls[s].req.feedback

\* C3: when the primary and the backup attempt both fail with a
\* non-cancellation error, the caller receives one error whose message
\* contains the message of both failures, and the providers were called at
\* most twice in all.
C3_CombinedError ==
    \A s \in Slots :
        LET c == calls[s] IN
        /\ c.called["primary"] + c.called["backup"] <= 2
        /\ c.called["primary"] <= 1 /\ c.called["backup"] <= 1
        /\ (PrimaryFailedOver(c) /\ Failed(c.failoverErr) /\ ~isAbortError(c.failoverErr)) =>
              /\ Done(c) /\ c.outcome.kind = "error"
              /\ ~isAbortError(c.outcome.err)
              /\ Contains(c.outcome.err.msg, c.primaryErr.msg)
              /\ Contains(c.outcome.err.msg, c.failoverErr.msg)

C3_Witness ==
    \E s \in Slots :
        /\ PrimaryFailedOver(calls[s])
        /\ Failed(calls[s].failoverErr) /\ ~isAbortError(calls[s].failoverErr)
        /\ calls[s].called["backup"] = 1
        /\ calls[s].primaryErr.msg # calls[s].failoverErr.msg

\* C4: withRetry never waits a backoff delay, and so never invokes the wrapped
\* operation again, after an invocation that failed with the AbortError.
C4_AbortNotRetried ==
    \A s \in Slots : calls[s].pc = "backoff" => ~isAbortError(calls[s].lastError)

\* C5: once the token has been signalled while a provider's generateTags was
\* inside withRetry, that generateTags ends with the AbortError only.
C5_CancelMidRetry ==
    \A s \in Slots :
        calls[s].sigPhase # None =>
            calls[s].provEnd[calls[s].sigPhase] \in {NoError, AbortError}

isAuthenticationFailure(e) ==
    \/ includes(e.msg, "Auth failed") \/ includes(e.msg, "API key")
    \/ includes(e.msg, "401") \/ includes(e.msg, "403")

\* C6: withRetry never waits a backoff delay after an authentication failure
\* of the transport call (credential rejected, HTTP 401 or 403): the operation
\* is invoked once and the error raised.
C6_AuthNotRetried ==
    \A s \in Slots :
        calls[s].pc = "backoff" => ~isAuthenticationFailure(calls[s].lastError)

C8_SupersededSilent ==
    \A g \in single.superseded :
        /\ g \in aborted
        /\ single.fate[g] \notin {"result", "error"}

Live(g) == single.fate[g] = "running" /\ g \notin aborted

LiveRun(r) == runs[r].pc \in {"running", "awaiting"} /\ r \notin aborted

\* C9: at any moment each controller (single-item, batch) has at most one
\* token that is both unsignalled and the token of an unfinished generation.
C9_OneLiveToken ==
    /\ Cardinality({g \in Slots : Live(g)}) <= 1
    /\ Cardinality({r \in Slots : LiveRun(r)}) <= 1

\* C10: in a batch of five items stopped after items 1 and 2 completed and
\* while item 3 was being processed, item 3 ends pending, items 4 and 5 stay
\* pending and are never sent, and the run emits no summary.
C10_StopMidBatch ==
    (/\ runs[1].pc = "ended"
     /\ Len(runs[1].items) = StoppedItems
     /\ runs[1].stoppedAt = 3
     /\ \A i \in 1..2 : batch.batchItems[i].status = "completed")
    => /\ \A i \in 3..StoppedItems : batch.batchItems[i].status = "pending"
       /\ runs[1].sent = 1..3
       /\ ~runs[1].reported

ActiveRun(r) == runs[r].pc \in {"running", "awaiting"}

Processing(i) == batch.batchItems[i].status = "processing"

\* C11: at any moment at most one run loop of the batch controller is
\* active and at most one item has status processing.
C11_OneLoop ==
    /\ Cardinality({r \in Slots : ActiveRun(r)}) <= 1
    /\ Cardinality({i \in DOMAIN batch.batchItems : Processing(i)}) <= 1

\* C12: once the token of a run has been signalled by stopGeneration, every
\* item after the one in flight at that moment keeps the status it had when
\* the run started and is never sent to the orchestrator.
C12_StopStartsNoItem ==
    (1 \in aborted /\ runs[1].stoppedAt > 0) =>
        \A i \in DOMAIN runs[1].items :
            i > runs[1].stoppedAt =>
                /\ batch.batchItems[i].status = runs[1].items[i]
                /\ i \notin runs[1].sent

CompletedAtStart(r) == {i \in DOMAIN runs[r].items : runs[r].items[i] = "completed"}

\* C13: a run whose token was never signalled has, when it ends, sent to the
\* orchestrator exactly the items that were not completed when it started;
\* the items completed at its start are counted as completed, keep their
\* status and result, and their success callback has fired once only.
C13_Rerun ==
    \A r \in RunSlots :
        (runs[r].pc = "ended" /\ r \notin aborted) =>
            /\ runs[r].sent = DOMAIN runs[r].items \ CompletedAtStart(r)
            /\ runs[r].completedCount >= Cardinality(CompletedAtStart(r))
            /\ \A i \in CompletedAtStart(r) :
                  /\ batch.batchItems[i].status = "completed"
                  /\ batch.batchItems[i].result # NoResult
                  /\ batch.onItemSuccess[i] = 1

Ends(r) == runs[r].pc # "ended" /\ runs'[r].pc = "ended"

Counts(run) == [completed |-> run.completedCount, failed |-> run.failedCount]

\* C14 as stated: every run over a batch with items whose loop has ended,
\* whether it reached the last item or was stopped, has published the
\* aggregate summary.
C14_AlwaysPublishes ==
    \A r \in RunSlots :
        (runs[r].pc = "ended" /\ Len(runs[r].items) > 0) => runs[r].reported

\* C14 amended: in the step in which the loop of a run ends, having reached
\* the last item or been stopped, the controller publishes that run's
\* completed and failed counts as the summary if one of them is positive
\* (of two runs ending in one step the later one's counts remain), and
\* publishes no summary if both are zero.
C14_SummaryWhenCounted ==
    [][\A r \in RunSlots :
          Ends(r) =>
              IF runs'[r].completedCount > 0 \/ runs'[r].failedCount > 0
              THEN \E q \in RunSlots : Ends(q) /\ batch'.batchSummary = Counts(runs'[q])
              ELSE batch'.batchSummary # Counts(runs'[r])]_vars

C14_Witness ==
    \E r \in RunSlots :
        /\ runs[r].pc = "ended" /\ r \in aborted /\ runs[r].stoppedAt > 1
        /\ runs[r].completedCount > 0
        /\ batch.batchSummary = Counts(runs[r])

\* the values of the vocabulary in a language: the column of the language in a
\* multi-column line, the tag of a two-column line
TargetValues(csv, lang) ==
    {trim(csv[n][IF Len(csv[n]) = 2 THEN 1
                 ELSE IF lang = "en" THEN 1 ELSE IF lang = "sc" THEN 2 ELSE 3]) :
        n \in {m \in 2..Len(csv) : Len(csv[m]) >= 2}} \ {<<>>}

\* the canonical form of a name under the vocabulary and language in use
Canonical(name) ==
    lookup(createTagLookup(tagHelpers.tagDataCsv, tagHelpers.targetLang), name)

\* the first entry of the input whose canonical form is this name
FirstOf(name) ==
    CHOOSE i \in 1..Len(tagHelpers.tags) :
        /\ Canonical(tagHelpers.tags[i].name) = name
        /\ \A j \in 1..(i - 1) : Canonical(tagHelpers.tags[j].name) # name

ValueOf(parts, lang) ==
    trim(parts[IF lang = "en" THEN 1 ELSE IF lang = "sc" THEN 2 ELSE 3])

\* the names of a multi-column line: English, simplified, traditional
Spellings(parts) == {trim(parts[1]), trim(parts[2]), trim(parts[3])} \ {<<>>}

\* one name written in another letter case
SameSpelling(a, b) == toLowerCase(a) = toLowerCase(b)

\* C16: for a line of the vocabulary that has a value in the target language
\* and a name that spells one of the line's three names in any letter case
\* (no other line carrying that spelling), normalizeTags of the single entry
\* (name, score) is the single entry (the line's value, score).
C16_ExactSpelling ==
    (tagHelpers.op = "normalize" /\ Len(tagHelpers.tags) = 1) =>
        LET csv == tagHelpers.tagDataCsv
            tag == tagHelpers.tags[1]
        IN  \A n \in 2..Len(csv) :
                ( /\ Len(csv[n]) >= 3
                  /\ ValueOf(csv[n], tagHelpers.targetLang) # <<>>
                  /\ \E sp \in Spellings(csv[n]) : SameSpelling(sp, tag.name)
                  /\ \A m \in 2..Len(csv) :
                        m # n => \A c \in DOMAIN csv[m] : ~SameSpelling(trim(csv[m][c]), tag.name) )
                => tagHelpers.normalized =
                       <<[name |-> ValueOf(csv[n], tagHelpers.targetLang), score |-> tag.score]>>

\* the keys registered for the vocabulary and language in use
RegisteredKeys ==
    LET keys == createTagLookup(tagHelpers.tagDataCsv, tagHelpers.targetLang).validKeys
    IN  {keys[i] : i \in DOMAIN keys}

\* the candidate is one of the registered keys, case-insensitively and after
\* trimming
PresentVerbatim(tagName) ==
    \E key \in RegisteredKeys : SameSpelling(key, trim(tagName))

\* C17: the lookup of a candidate shorter than 4 characters that is not
\* among the registered keys (case-insensitively, after trimming) answers
\* not-found, whatever the vocabulary and the target language.
C17_ShortNotFuzzy ==
    ( /\ tagHelpers.op = "lookup"
      /\ Len(tagHelpers.tagName) < 4
      /\ ~PresentVerbatim(tagHelpers.tagName) ) => tagHelpers.match = Null

\* a short candidate one edit away from a registered key is not found
C17_Witness ==
    /\ tagHelpers.op = "lookup"
    /\ tagHelpers.tagName # <<>>
    /\ Len(tagHelpers.tagName) < 4
    /\ ~PresentVerbatim(tagHelpers.tagName)
    /\ \E key \in RegisteredKeys :
          levenshteinDistance(trim(toLowerCase(tagHelpers.tagName)), key) = 1
    /\ tagHelpers.match = Null

\* C18: when the primary call or the backup call of a request (generateTags
\* or explainTag) has ended with the AbortError, the request ends with that
\* AbortError: not with the primary's error, a combined error or a connection
\* error.
C18_CancellationWins ==
    \A s \in Slots :
        ( /\ Done(calls[s])
          /\ \E ph \in Phases : isAbortError(calls[s].provEnd[ph]) )
        => RaisedError(calls[s], AbortError)

\* C19: after any saves and resets of the configuration, a request that was
\* served without failover reports as providerName the identity of the
\* provider instance that served it, and that instance is the one the
\* configuration stored at the time of the request describes.
C19_ServedByConfigured ==
    \A s \in Slots :
        ( /\ Done(calls[s])
          /\ calls[s].outcome.kind = "ok"
          /\ ~calls[s].outcome.usedFailover )
        => /\ calls[s].outcome.providerName = calls[s].outcome.result.by.identity
           /\ calls[s].outcome.result.by.identity = calls[s].config.provider

\* the backend refused the request on content-safety grounds
IsRefusal(e) == includes(e.msg, "blocked") /\ includes(e.msg, "safety")

\* C20: a content-safety refusal ends the provider call at once: the attempt
\* that met it is not followed by a backoff or another transport call, so
\* the transport is called once; and the primary's refusal, with failover
\* enabled and a backup that can be built, is followed by one call of the
\* backup.
C20_RefusalTerminal ==
    \A s \in Slots :
        /\ IsRefusal(calls[s].lastError) => calls[s].pc \notin {"backoff", "transport"}
        /\ ( /\ IsRefusal(calls[s].retryEnd["primary"])
              /\ calls[s].config.enableFailover /\ calls[s].config.failoverProvider # None
              /\ BackupBuildable(calls[s]) )
           => calls[s].called["backup"] = 1

\* C21: when a run of the batch controller has ended, no item is processing;
\* every item whose status the run changed was given to the orchestrator;
\* and every item given to the orchestrator is completed with its result and
\* one success callback, or pending with no later item given to the
\* orchestrator, or in error with the failure's message.
C21_ItemOutcome ==
    \A r \in RunSlots :
        runs[r].pc = "ended" =>
            \A i \in DOMAIN runs[r].items :
                LET item == batch.batchItems[i]
                IN  /\ item.status # "processing"
                    /\ item.status # runs[r].items[i] => i \in runs[r].sent
                    /\ i \in runs[r].sent =>
                          \/ /\ item.status = "completed"
                             /\ item.result # NoResult
                             /\ batch.onItemSuccess[i] = 1
                          \/ /\ item.status = "pending"
                             /\ \A j \in runs[r].sent : j <= i
                          \/ /\ item.status = "error"
                             /\ item.error # <<>>

\* the latest generation was stopped by stopGeneration: its token is
\* signalled and no later generate call has been made
Stopped(g) == g > 0 /\ g = single.started /\ g \in aborted

\* C22: after stopGeneration has stopped the generation in flight and until
\* the next generate call, the controller is idle while the stopped request
\* goes on (no progress label, no pending progress callback, no token kept),
\* and the stopped generation stores neither a result nor an error.
C22_StopSilences ==
    \A g \in Slots :
        Stopped(g) =>
            /\ single.fate[g] \notin {"result", "error"}
            /\ InFlight(calls, g) =>
                  /\ single.loadingStep = None
                  /\ single.loadingTimers = NoTimers
                  /\ single.abortControllerRef = 0

\* generation g ends in this step, with the cancellation outcome or with
\* another failure, and no generate call is made in the step
Cancels(g) ==
    /\ single.fate[g] = "running" /\ single'.fate[g] = "cancelled"
    /\ single'.started = single.started

Fails(g) == single.fate[g] = "running" /\ single'.fate[g] = "error"

\* C23: a generation that ends with the cancellation outcome leaves the
\* controller idle, stores no error message, leaves the stored result and
\* failover notice as they were and does not call the success callback; an
\* error message is stored only by a generation that ends with another
\* failure (or by a generate call made before the tag data is loaded).
C23_CancelledQuietly ==
    [][ /\ \A g \in Slots :
              Cancels(g) =>
                  /\ single'.loadingStep = None
                  /\ single'.error = single.error
                  /\ single'.generatedResult = single.generatedResult
                  /\ single'.failoverInfo = single.failoverInfo
                  /\ single'.onSuccess = single.onSuccess
        /\ (single'.error # single.error /\ single'.error # <<>>) =>
              \/ ~tagDataCsv
              \/ \E g \in Slots : Fails(g) ]_single

\* a regeneration was cancelled while a result was on display
C23_Witness ==
    \E g \in Slots :
        /\ single.fate[g] = "cancelled"
        /\ single.started = g
        /\ single.generatedResult # NoResult
        /\ single.error = <<>>
        /\ single.loadingStep = None

\* the two strings are at most k edits apart (insertions, deletions and
\* substitutions of one character)
RECURSIVE EditsWithin(_, _, _)
EditsWithin(s, t, k) ==
    IF s = <<>> THEN Len(t) <= k
    ELSE IF t = <<>> THEN Len(s) <= k
    ELSE IF Head(s) = Head(t) THEN EditsWithin(Tail(s), Tail(t), k)
    ELSE /\ k > 0
         /\ \/ EditsWithin(Tail(s), t, k - 1)
            \/ EditsWithin(s, Tail(t), k - 1)
            \/ EditsWithin(Tail(s), Tail(t), k - 1)

\* the edit distance of two strings when it is 3 or less, 4 otherwise
EditDistance(s, t) ==
    IF \E k \in 0..3 : EditsWithin(s, t, k)
    THEN CHOOSE k \in 0..3 : EditsWithin(s, t, k) /\ \A j \in 0..(k - 1) : ~EditsWithin(s, t, j)
    ELSE 4

\* the greatest accepted distance for a candidate of this length
Tolerance(len) == IF len < 4 THEN 0 ELSE IF len <= 7 THEN 2 ELSE 3

\* what the fuzzy fallback is to answer for a normalised candidate: the
\* value of the nearest registered key within the tolerance, the first
\* registered among the nearest
NearestValue(T, candidate) ==
    LET keys   == T.validKeys
        within == {i \in DOMAIN keys :
                      EditDistance(candidate, keys[i]) <= Tolerance(Len(candidate))}
        best   == CHOOSE i \in within :
                      \A j \in within :
                          \/ EditDistance(candidate, keys[i]) < EditDistance(candidate, keys[j])
                          \/ /\ EditDistance(candidate, keys[i]) = EditDistance(candidate, keys[j])
                             /\ i <= j
    IN  IF within = {} THEN Null ELSE T.lookupMap[keys[best]]

\* C24: a candidate with no exact key resolves to the value of the nearest
\* registered key within the tolerance of its length (0 below 4 characters,
\* 2 for 4 to 7, 3 from 8 on), the first registered key among the nearest,
\* and to not-found when no key is within the tolerance; keys are compared
\* whatever their length.
C24_FuzzyFallback ==
    LET T         == createTagLookup(tagHelpers.tagDataCsv, tagHelpers.targetLang)
        candidate == trim(toLowerCase(tagHelpers.tagName))
    IN  ( /\ tagHelpers.op = "lookup"
          /\ tagHelpers.tagName # <<>>
          /\ candidate \notin DOMAIN T.lookupMap )
        => tagHelpers.match = NearestValue(T, candidate)

\* two keys with different values are equally near the candidate, and the
\* first registered is the one answered
C24_Witness ==
    LET T         == createTagLookup(tagHelpers.tagDataCsv, tagHelpers.targetLang)
        candidate == trim(toLowerCase(tagHelpers.tagName))
        keys      == T.validKeys
    IN  /\ tagHelpers.op = "lookup"
        /\ candidate \notin DOMAIN T.lookupMap
        /\ \E i, j \in DOMAIN keys :
              /\ i < j
              /\ EditDistance(candidate, keys[i]) = EditDistance(candidate, keys[j])
              /\ EditDistance(candidate, keys[i]) <= Tolerance(Len(candidate))
              /\ \A h \in DOMAIN keys :
                    EditDistance(candidate, keys[h]) >= EditDistance(candidate, keys[i])
              /\ \A h \in 1..(i - 1) :
                    EditDistance(candidate, keys[h]) > EditDistance(candidate, keys[i])
              /\ T.lookupMap[keys[i]] # T.lookupMap[keys[j]]
              /\ tagHelpers.match = T.lookupMap[keys[i]]

\* generate is called and starts generation g
Starts(g) == single.started = g - 1 /\ single'.started = g

\* the request of generation g moves on and is not over
Proceeds(g) == /\ InFlight(calls, g) /\ InFlight(calls', g)
               /\ calls'[g] # calls[g] /\ single'.started = single.started

\* C25: a generate call that is not a regeneration hands the orchestrator
\* neither pinned nor excluded tags and has cleared the stored result and
\* the failover notice when its request is under way; a regeneration hands
\* over the pinned and excluded tags and neither the call nor a later step
\* of its unfinished request changes the stored result and failover notice.
C25_FreshClearsRegenerationKeeps ==
    [][ \A g \in Slots :
          /\ Starts(g) =>
                IF calls'[g].req.feedback
                THEN /\ single'.generatedResult = single.generatedResult
                     /\ single'.failoverInfo = single.failoverInfo
                ELSE /\ single'.generatedResult = NoResult
                     /\ single'.failoverInfo = NoFailover
          /\ (Proceeds(g) /\ calls[g].req.feedback) =>
                /\ single'.generatedResult = single.generatedResult
                /\ single'.failoverInfo = single.failoverInfo ]_single

\* a regeneration is in flight over the result and the failover notice of
\* the generation before it
C25_Witness ==
    \E g \in Slots :
        /\ single.started = g
        /\ InFlight(calls, g)
        /\ calls[g].req.feedback
        /\ calls[g].sent # Zero
        /\ single.generatedResult # NoResult
        /\ single.failoverInfo # NoFailover

\* the text of the line starts with ",=="
isSectionRow(line) ==
    /\ Len(line) >= 2
    /\ line[1] = <<>>
    /\ Len(line[2]) >= 2
    /\ line[2][1] = "=" /\ line[2][2] = "="

\* the vocabulary without its section rows
RECURSIVE WithoutSections(_)
WithoutSections(lines) ==
    IF lines = <<>> THEN <<>>
    ELSE (IF isSectionRow(Head(lines)) THEN <<>> ELSE <<Head(lines)>>)
         \o WithoutSections(Tail(lines))

\* C26: the header row and the rows that start with ",==" contribute no key
\* and no value: every candidate resolves as it does in the vocabulary
\* without these rows, for every target language.
C26_SectionRowsIgnored ==
    tagHelpers.op = "lookup" =>
        tagHelpers.match =
            lookup(createTagLookup(<<Header>> \o WithoutSections(Tail(tagHelpers.tagDataCsv)),
                                   tagHelpers.targetLang),
                   tagHelpers.tagName)

\* generation g, cancelled and older than the one in flight, comes to its end
EndsStale(g) ==
    /\ single.fate[g] = "running" /\ single'.fate[g] # "running"
    /\ g \in aborted' /\ g < single'.started
    /\ single'.started \notin aborted'
    /\ InFlight(calls', single'.started)

\* C27: while a generation that is not cancelled is in flight the controller
\* is loading: when an older, cancelled generation comes to its end beside
\* it, the loading step, the progress schedule and the token reference of
\* the newer generation stay as they are, or as its generate call has just
\* set them.
C27_StaleCompletionKeepsLoading ==
    [][ \A g \in Slots :
          EndsStale(g) =>
              IF single'.started = single.started
              THEN /\ single'.loadingStep = single.loadingStep
                   /\ single'.loadingTimers = single.loadingTimers
                   /\ single'.abortControllerRef = single.abortControllerRef
              ELSE /\ single'.loadingStep # None
                   /\ single'.loadingTimers.owner = single'.started
                   /\ single'.abortControllerRef = single'.started ]_single

\* the primary provider could not be constructed: ensureProviderIsActive
\* raised and no provider was called for the primary
PrimaryUnbuilt(c) == c.pc # "idle" /\ c.called["primary"] = 0 /\ Failed(c.primaryErr)

\* C28 as stated: after a primary that could not be constructed, with
\* failover enabled and a backup configured, the backup has been called once
\* and its answer is reported with usedFailover = TRUE; without failover the
\* construction error is raised.
C28_UnbuiltBackupAlwaysCalled ==
    \A s \in Slots :
        LET c == calls[s] IN
        PrimaryUnbuilt(c) =>
            IF shouldFailover(c.config)
            THEN /\ c.called["backup"] = 1
                 /\ c.provEnd["backup"] = Returned =>
                       /\ Done(c) /\ c.outcome.kind = "ok"
                       /\ c.outcome.usedFailover = TRUE
            ELSE RaisedError(c, c.primaryErr)

\* C28 amended: after a primary that could not be constructed, with failover
\* enabled and a backup configured, the backup is constructed; if it can be,
\* it has been called once with the request and its answer is reported with
\* usedFailover = TRUE and the backup's identity; if it cannot be, no provider
\* is called and one error with both construction messages is raised.
\* Without failover the construction error is raised.
C28_UnbuiltPrimaryFailsOver ==
    \A s \in Slots :
        LET c == calls[s] IN
        PrimaryUnbuilt(c) =>
            IF shouldFailover(c.config)
            THEN IF BackupBuildable(c)
                 THEN /\ c.called["backup"] = 1
                      /\ c.backupReq = c.req /\ c.backupTok = c.tok
                      /\ c.provEnd["backup"] = Returned =>
                            /\ Done(c) /\ c.outcome.kind = "ok"
                            /\ c.outcome.usedFailover = TRUE
                            /\ c.outcome.providerName = c.config.failoverProvider
                 ELSE /\ c.called["backup"] = 0
                      /\ Done(c) /\ c.outcome.kind = "error"
                      /\ Contains(c.outcome.err.msg, c.primaryErr.msg)
                      /\ Contains(c.outcome.err.msg, c.failoverErr.msg)
            ELSE RaisedError(c, c.primaryErr)

\* the backup has answered for a primary that could not be constructed
C28_Witness ==
    \E s \in Slots :
        /\ PrimaryUnbuilt(calls[s])
        /\ calls[s].provEnd["backup"] = Returned
        /\ calls[s].outcome.kind = "ok"
        /\ calls[s].outcome.usedFailover

\* C29: normalizeTags is idempotent: normalising its own output again, for
\* the same target language, gives that output.
C29_Idempotent ==
    tagHelpers.op = "normalize" =>
        normalizeTags(tagHelpers.tagDataCsv, tagHelpers.normalized, tagHelpers.targetLang)
            = tagHelpers.normalized

\* C30: one generateTags request makes at most retries + 1 = 4 transport
\* calls to the primary provider and at most 4 to the backup, it has an
\* outcome (a result, or an error, the cancellation among them) exactly when
\* it is over, and, transport calls and backoff timers completing, a request
\* that was made is over in the end.
C30_BoundedWork ==
    /\ [](\A s \in Slots :
            /\ calls[s].sent["primary"] <= retries + 1
            /\ calls[s].sent["backup"] <= retries + 1
            /\ Done(calls[s]) <=> calls[s].outcome # NoOutcome
            /\ Done(calls[s]) => calls[s].outcome.kind \in {"ok", "error"})
    /\ (calls[1].pc # "idle") ~> Done(calls[1])

\* a request is over after the 4 transport calls of the primary and the 4 of
\* the backup
C30_Witness ==
    \E s \in Slots :
        /\ Done(calls[s])
        /\ calls[s].sent["primary"] = retries + 1
        /\ calls[s].sent["backup"] = retries + 1

====
